---- MODULE Spec2Model ----
(***************************************************************************)
(* Model of imageIngest.py: the script that, for every consent group of a  *)
(* study, creates a dataset, creates a DICOM store in it, imports the      *)
(* group's bucket and sets the dataset's IAM policy.                       *)
(*                                                                         *)
(* Strings the script concatenates are sequences of one-character strings, *)
(* so that "+" is \o and the derived names are computed, not assumed.      *)
(***************************************************************************)
EXTENDS Integers, Sequences, FiniteSets, TLC

VARIABLES
    argc,       \* len(sys.argv)
    study,      \* parsedYaml["study"]: [id, groups], groups a list of one-key dicts
    pc,         \* position of main()
    i,          \* loop index of main(), 1-based
    exc,        \* the exception that left main(), "none" while there is none
    runNo,      \* which invocation of the script this is
    exits,      \* exit status of the invocations that ended, oldest first
    datasets,   \* remote: the dataset ids that exist
    stores,     \* remote: the <<dataset id, store id>> pairs that exist
    imported,   \* remote: the <<dataset id, store id, uri>> imports that ran
    bindings,   \* remote: the IAM policies, as [dataset, role, member] triples
    calls,      \* history: every request.execute() of every invocation
    pairs,      \* inputs of the naming derivation under study (SpecNaming)
    names       \* their derived names, <<>> before the derivation

vars == <<argc, study, pc, i, exc, runNo, exits, datasets, stores, imported,
          bindings, calls, pairs, names>>

(***************************************************************************)
(* Bounds and input sets                                                   *)
(***************************************************************************)
MaxGroups == 2
MaxRuns == 2
MaxNameLen == 2

Range(s) == {s[k] : k \in 1..Len(s)}

StudyIds == {<<"s">>}
GroupNames == {<<"a">>, <<"b">>, <<"A">>}
Emails == {<<"x">>, <<"y">>}
MemberLists == {<<>>, <<(<<"x">>)>>, <<(<<"y">>), (<<"x">>)>>}
ConsentGroup == [name : GroupNames, members : MemberLists]

RECURSIVE SeqsUpTo(_, _)
SeqsUpTo(S, n) ==
    IF n = 0 THEN {<<>>}
    ELSE LET shorter == SeqsUpTo(S, n - 1)
         IN  shorter \cup {Append(s, e) : s \in shorter, e \in S}

Studies == {[id |-> sid, groups |-> g] :
               sid \in StudyIds, g \in SeqsUpTo(ConsentGroup, MaxGroups)}

(***************************************************************************)
(* Names derived in main()                                                 *)
(***************************************************************************)
DATASET_PREFIX == <<"d", "a", "t", "a", "s", "e", "t", "-", "-">>
SEPARATOR == <<"-", "-">>
DCM_GLOB == <<"/", "*", "*", ".", "d", "c", "m">>
USER_PREFIX == <<"u", "s", "e", "r", ":">>
ROLE_VIEWER == "roles/viewer"

thisDataSetName_noKey(studyId, key) == DATASET_PREFIX \o studyId \o SEPARATOR

thisDataSetName(studyId, key) == DATASET_PREFIX \o studyId \o SEPARATOR \o key

thisDataStoreName(studyId, key) == studyId \o SEPARATOR \o key

uri(studyId, key) == thisDataStoreName(studyId, key) \o DCM_GLOB

\* the bare email, without the principal-kind tag
thisUserEmail_bare(thisEmail) == thisEmail

thisUserEmail(thisEmail) == USER_PREFIX \o thisEmail

userList(allowedEmails) ==
    [k \in 1..Len(allowedEmails) |-> thisUserEmail(allowedEmails[k])]

DeriveNames(p) ==
    [datasetId |-> thisDataSetName(p.studyId, p.key),
     storeId |-> thisDataStoreName(p.studyId, p.key),
     uri |-> uri(p.studyId, p.key)]

(***************************************************************************)
(* The remote Healthcare API, as far as request.execute() shows it         *)
(***************************************************************************)
ALLOWED_CHARS ==
    {"a", "b", "c", "d", "e", "f", "g", "h", "i", "j", "k", "l", "m", "n",
     "o", "p", "q", "r", "s", "t", "u", "v", "w", "x", "y", "z", "0", "1",
     "2", "3", "4", "5", "6", "7", "8", "9", "-"}

\* the resource-naming grammar of the remote service
RemoteAccepts(id) == \A k \in 1..Len(id) : id[k] \in ALLOWED_CHARS

\* HttpError kinds a request can raise whatever the state of the remote
ProvisionErrors == {"PermissionDenied"}

\* results of datasets().create / dicomStores().create
CreateResults(id, exists) ==
    IF ~RemoteAccepts(id) THEN {"InvalidArgument"}
    ELSE (IF exists THEN {"AlreadyExists"} ELSE {"ok"}) \cup ProvisionErrors

NoSummary == [requested |-> 0, succeeded |-> 0, rejected |-> 0]

ImportSummaries ==
    {[requested |-> 10, succeeded |-> 10, rejected |-> 0],
     [requested |-> 10, succeeded |-> 7, rejected |-> 3]}

\* results of dicomStores().import_: a response carrying a summary, or an error
ImportResults ==
    {[result |-> "ok", summary |-> s] : s \in ImportSummaries}
    \cup {[result |-> e, summary |-> NoSummary] : e \in ProvisionErrors}

SetIamPolicyResults == {"ok"} \cup ProvisionErrors

\* the body set_dataset_iam_policy sends: one binding, members = [member]
PolicyBody(member, role) ==
    [bindings |-> << [role |-> role, members |-> <<member>>] >>]

\* the [dataset, role, member] triples a policy body stands for; a member
\* that is a list grants the role to each element of the list (lines 260-262)
PolicyTriples(dataset_id, policy) ==
    UNION {{[dataset |-> dataset_id, role |-> b.role, member |-> m] :
               m \in UNION {Range(l) : l \in Range(b.members)}} :
           b \in Range(policy.bindings)}

\* datasets().setIamPolicy: the dataset's policy becomes the body's policy
SetIamPolicy(old, dataset_id, policy) ==
    {t \in old : t.dataset # dataset_id} \cup PolicyTriples(dataset_id, policy)

(***************************************************************************)
(* main()                                                                  *)
(***************************************************************************)
consentGroups == study.groups
studyId == study.id
thisConsentGroup == consentGroups[i]
\* the key of the first entry, whatever entry the loop is at
key_first == consentGroups[1].name

key == thisConsentGroup.name

Call(op, ds, st, u, members, role, result, summary) ==
    [run |-> runNo, group |-> i, op |-> op, dataset |-> ds, store |-> st,
     uri |-> u, members |-> members, role |-> role, result |-> result,
     summary |-> summary]

\* the exception caught and printed where it occurs, as in the try/except
\* that is commented out at lines 46 and 51-52: the run goes on
Raise_continue(e) ==
    /\ exc' = exc
    /\ IF pc = "set_dataset_iam_policy"
       THEN IF i + 1 > Len(consentGroups)
            THEN pc' = "returned" /\ i' = i /\ exits' = Append(exits, 0)
            ELSE pc' = "create_dataset" /\ i' = i + 1 /\ exits' = exits
       ELSE /\ pc' = CASE pc = "create_dataset" -> "create_dicom_store"
                      [] pc = "create_dicom_store" -> "import_dicom_instance"
                      [] OTHER -> "set_dataset_iam_policy"
            /\ i' = i
            /\ exits' = exits

\* an HttpError nobody catches: traceback, exit status 1
Raise(e) ==
    /\ pc' = "raised"
    /\ exc' = e
    /\ exits' = Append(exits, 1)
    /\ i' = i

\* main() returns: exit status 0
Return(where) ==
    /\ pc' = where
    /\ exc' = exc
    /\ exits' = Append(exits, 0)

\* the test of "for i in range(len(consentGroups))"
Iterate(k) ==
    IF k > Len(consentGroups)
    THEN Return("returned") /\ i' = i
    ELSE pc' = "create_dataset" /\ i' = k /\ exc' = exc /\ exits' = exits

\* what main() does with the response of import_dicom_instance: nothing
AfterImport_checkRejected(summary) ==
    IF summary.rejected > 0 THEN "raised" ELSE "set_dataset_iam_policy"

AfterImport(summary) == "set_dataset_iam_policy"

Init ==
    /\ argc \in {1, 2}
    /\ study \in Studies
    /\ pc = "main"
    /\ i = 0
    /\ exc = "none"
    /\ runNo = 1
    /\ exits = <<>>
    /\ datasets = {}
    /\ stores = {}
    /\ imported = {}
    /\ bindings = {}
    /\ calls = <<>>
    /\ pairs = <<>>
    /\ names = <<>>

\* lines 205-227: the usage check and the reading of the yaml file
Main ==
    /\ pc = "main"
    /\ IF argc < 2
       THEN Return("usage") /\ i' = i
       ELSE Iterate(1)
    /\ UNCHANGED <<argc, study, runNo, datasets, stores, imported, bindings,
                   calls, pairs, names>>

\* lines 237-238
create_dataset ==
    /\ pc = "create_dataset"
    /\ LET ds == thisDataSetName(studyId, key)
       IN  \E r \in CreateResults(ds, ds \in datasets) :
              /\ calls' = Append(calls, Call("create_dataset", ds, <<>>, <<>>,
                                             <<>>, "", r, NoSummary))
              /\ IF r = "ok"
                 THEN /\ datasets' = datasets \cup {ds}
                      /\ pc' = "create_dicom_store"
                      /\ UNCHANGED <<i, exc, exits>>
                 ELSE /\ Raise(r)
                      /\ UNCHANGED datasets
    /\ UNCHANGED <<argc, study, runNo, stores, imported, bindings, pairs,
                   names>>

\* lines 240-244
create_dicom_store ==
    /\ pc = "create_dicom_store"
    /\ LET ds == thisDataSetName(studyId, key)
           st == thisDataStoreName(studyId, key)
       IN  \E r \in CreateResults(st, <<ds, st>> \in stores) :
              /\ calls' = Append(calls, Call("create_dicom_store", ds, st,
                                             <<>>, <<>>, "", r, NoSummary))
              /\ IF r = "ok"
                 THEN /\ stores' = stores \cup {<<ds, st>>}
                      /\ pc' = "import_dicom_instance"
                      /\ UNCHANGED <<i, exc, exits>>
                 ELSE /\ Raise(r)
                      /\ UNCHANGED stores
    /\ UNCHANGED <<argc, study, runNo, datasets, imported, bindings, pairs,
                   names>>

\* lines 248-249
import_dicom_instance ==
    /\ pc = "import_dicom_instance"
    /\ LET ds == thisDataSetName(studyId, key)
           st == thisDataStoreName(studyId, key)
           u  == uri(studyId, key)
       IN  \E r \in ImportResults :
              /\ calls' = Append(calls, Call("import_dicom_instance", ds, st,
                                             u, <<>>, "", r.result, r.summary))
              /\ IF r.result = "ok"
                 THEN /\ imported' = imported \cup {<<ds, st, u>>}
                      /\ pc' = AfterImport(r.summary)
                      /\ UNCHANGED <<i, exc, exits>>
                 ELSE /\ Raise(r.result)
                      /\ UNCHANGED imported
    /\ UNCHANGED <<argc, study, runNo, datasets, stores, bindings, pairs,
                   names>>

\* lines 253-268, and the end of the loop body
set_dataset_iam_policy ==
    /\ pc = "set_dataset_iam_policy"
    /\ LET ds == thisDataSetName(studyId, key)
           ul == userList(thisConsentGroup.members)
       IN  \E r \in SetIamPolicyResults :
              /\ calls' = Append(calls, Call("set_dataset_iam_policy", ds,
                                             <<>>, <<>>, ul, ROLE_VIEWER, r,
                                             NoSummary))
              /\ IF r = "ok"
                 THEN /\ bindings' = SetIamPolicy(bindings, ds,
                                                  PolicyBody(ul, ROLE_VIEWER))
                      /\ Iterate(i + 1)
                 ELSE /\ Raise(r)
                      /\ UNCHANGED bindings
    /\ UNCHANGED <<argc, study, runNo, datasets, stores, imported, pairs,
                   names>>

Terminated == pc \in {"returned", "usage", "raised"}

\* what an ended invocation reports: the script prints no report, its exit
\* status is all there is (0 when main() returns, 1 after a traceback)
RunStatus == IF exits[runNo] = 0 THEN "Success" ELSE "Failure"

\* the script is started again with the same arguments and yaml file,
\* against the remote state the earlier invocations left
Rerun ==
    /\ Terminated
    /\ runNo < MaxRuns
    /\ runNo' = runNo + 1
    /\ pc' = "main"
    /\ i' = 0
    /\ exc' = "none"
    /\ UNCHANGED <<argc, study, exits, datasets, stores, imported, bindings,
                   calls, pairs, names>>

Next ==
    \/ Main
    \/ create_dataset
    \/ create_dicom_store
    \/ import_dicom_instance
    \/ set_dataset_iam_policy
    \/ Rerun

Spec == Init /\ [][Next]_vars

TypeOK ==
    /\ pc \in {"main", "create_dataset", "create_dicom_store",
               "import_dicom_instance", "set_dataset_iam_policy", "returned",
               "usage", "raised"}
    /\ i \in 0..Len(consentGroups)
    /\ runNo \in 1..MaxRuns
    /\ Len(exits) \in {runNo - 1, runNo}

(***************************************************************************)
(* set_dataset_iam_policy called on datasets that already carry a policy   *)
(***************************************************************************)
Roles == {ROLE_VIEWER, "roles/owner"}
GrantDatasets == {thisDataSetName(sid, g) : sid \in StudyIds, g \in {<<"a">>, <<"b">>}}
GrantIdentities == {thisUserEmail(e) : e \in Emails}
GrantTriples == [dataset : GrantDatasets, role : Roles, member : GrantIdentities]

InitGrant ==
    /\ argc = 2
    /\ study = [id |-> <<"s">>, groups |-> <<>>]
    /\ pc = "api"
    /\ i = 0
    /\ exc = "none"
    /\ runNo = 1
    /\ exits = <<>>
    /\ datasets = GrantDatasets
    /\ stores = {}
    /\ imported = {}
    /\ bindings \in SUBSET GrantTriples
    /\ calls = <<>>
    /\ pairs = <<>>
    /\ names = <<>>

\* lines 58-101, called with etag=None
GrantAccess ==
    /\ pc = "api"
    /\ \E ds \in datasets, m \in MemberLists, role \in Roles,
          r \in SetIamPolicyResults :
          /\ calls' = <<Call("set_dataset_iam_policy", ds, <<>>, <<>>,
                             userList(m), role, r, NoSummary)>>
          /\ bindings' = IF r = "ok"
                         THEN SetIamPolicy(bindings, ds,
                                           PolicyBody(userList(m), role))
                         ELSE bindings
    /\ UNCHANGED <<argc, study, pc, i, exc, runNo, exits, datasets, stores,
                   imported, pairs, names>>

NextGrant == GrantAccess

SpecGrant == InitGrant /\ [][NextGrant]_vars

(***************************************************************************)
(* The naming derivation of lines 237-248 on pairs of (studyId, key)       *)
(***************************************************************************)
NameChars == {"a", "-"}
NameStrings == SeqsUpTo(NameChars, MaxNameLen) \ {<<>>}
NamePairs == [studyId : NameStrings, key : NameStrings]

InitNaming ==
    /\ argc = 2
    /\ study = [id |-> <<"s">>, groups |-> <<>>]
    /\ pc = "naming"
    /\ i = 0
    /\ exc = "none"
    /\ runNo = 1
    /\ exits = <<>>
    /\ datasets = {}
    /\ stores = {}
    /\ imported = {}
    /\ bindings = {}
    /\ calls = <<>>
    /\ pairs \in {<<p, q>> : p \in NamePairs, q \in NamePairs}
    /\ names = <<>>

Derive ==
    /\ pc = "naming"
    /\ names = <<>>
    /\ names' = <<DeriveNames(pairs[1]), DeriveNames(pairs[2])>>
    /\ UNCHANGED <<argc, study, pc, i, exc, runNo, exits, datasets, stores,
                   imported, bindings, calls, pairs>>

NextNaming == Derive

SpecNaming == InitNaming /\ [][NextNaming]_vars

(***************************************************************************)
(* Vocabulary of the properties                                            *)
(***************************************************************************)
NumGroups == Len(consentGroups)
CallIndexes == 1..Len(calls)
CallsOf(r, g) == {k \in CallIndexes : calls[k].run = r /\ calls[k].group = g}
Attempted(r, g) == CallsOf(r, g) # {}
Steps == {"create_dataset", "create_dicom_store", "import_dicom_instance",
          "set_dataset_iam_policy"}
StepDone(r, g, op) ==
    \E k \in CallsOf(r, g) : calls[k].op = op /\ calls[k].result = "ok"
Completed(r, g) == \A op \in Steps : StepDone(r, g, op)
OwnFailure(r, g) == \E k \in CallsOf(r, g) : calls[k].result # "ok"
HasDuplicateNames ==
    \E g, h \in 1..NumGroups :
        g # h /\ consentGroups[g].name = consentGroups[h].name
ValidGroup(g) == RemoteAccepts(thisDataSetName(studyId, consentGroups[g].name))
WellFormedStudy ==
    /\ argc = 2
    /\ ~HasDuplicateNames
    /\ \A g \in 1..NumGroups : ValidGroup(g)
FirstRunSucceeded ==
    /\ argc = 2
    /\ NumGroups >= 1
    /\ Len(exits) >= 1
    /\ exits[1] = 0
    /\ \A g \in 1..NumGroups : Completed(1, g)

GrantCalls(r, g) ==
    {k \in CallsOf(r, g) : calls[k].op = "set_dataset_iam_policy"}

PartialImport(k) ==
    /\ calls[k].op = "import_dicom_instance"
    /\ calls[k].result = "ok"
    /\ calls[k].summary.rejected > 0

(***************************************************************************)
(* C1. Fault isolation: in a study of distinct, valid group names, when    *)
(* the create_dicom_store call of a group fails with PermissionDenied,     *)
(* every later group of the study is still processed, and completes its    *)
(* four steps unless a call of its own fails.                              *)
(***************************************************************************)
C1_FaultIsolation ==
    (Terminated /\ WellFormedStudy) =>
        \A k \in CallIndexes :
            (/\ calls[k].run = runNo
             /\ calls[k].op = "create_dicom_store"
             /\ calls[k].result = "PermissionDenied")
            => \A h \in (calls[k].group + 1)..NumGroups :
                   /\ Attempted(runNo, h)
                   /\ OwnFailure(runNo, h) \/ Completed(runNo, h)

(***************************************************************************)
(* C2. Idempotent re-run: in a second run after a first run that           *)
(* succeeded, AlreadyExists never ends the run, and unless some other      *)
(* error occurs the second run returns with every group imported and       *)
(* granted.                                                                *)
(***************************************************************************)
C2_IdempotentRerun ==
    (runNo = 2 /\ FirstRunSucceeded) =>
        /\ exc # "AlreadyExists"
        /\ (Terminated /\ exc = "none") =>
               \A g \in 1..NumGroups :
                   /\ StepDone(2, g, "import_dicom_instance")
                   /\ StepDone(2, g, "set_dataset_iam_policy")

(***************************************************************************)
(* C3. Fail-fast on duplicate names: a study in which two consent groups   *)
(* have the same name makes no remote call at all, and its run ends with   *)
(* ConfigurationError.                                                     *)
(***************************************************************************)
C3_FailFastOnDuplicates ==
    (argc = 2 /\ HasDuplicateNames) =>
        /\ calls = <<>>
        /\ Terminated => exc = "ConfigurationError"

(***************************************************************************)
(* C4. No cross-group leakage: every identity bound on the dataset of a    *)
(* consent group is "user:" + m for a member m of that group's own list.   *)
(***************************************************************************)
C4_NoCrossGroupLeakage ==
    \A g \in 1..NumGroups :
        \A t \in bindings :
            t.dataset = thisDataSetName(studyId, consentGroups[g].name)
            => \E m \in Range(consentGroups[g].members) :
                   t.member = thisUserEmail(m)

(***************************************************************************)
(* C5. Additive access grant: a call of set_dataset_iam_policy leaves      *)
(* every binding that existed before it in place; the policy after the     *)
(* call is a superset of the policy before it.                             *)
(***************************************************************************)
C5_AdditiveGrant == [][bindings \subseteq bindings']_vars

(***************************************************************************)
(* C6. Empty allow-list skips the grant: set_dataset_iam_policy is called  *)
(* at most once for a group in a run, never for a group whose member list  *)
(* is empty, and once for a group with members that the loop has left      *)
(* without an error.                                                       *)
(***************************************************************************)
C6_EmptyAllowListSkipsGrant ==
    \A r \in 1..runNo, g \in 1..NumGroups :
        /\ Cardinality(GrantCalls(r, g)) <= 1
        /\ consentGroups[g].members = <<>> => GrantCalls(r, g) = {}
        /\ (/\ consentGroups[g].members # <<>>
            /\ StepDone(r, g, "import_dicom_instance")
            /\ r = runNo
            /\ pc # "set_dataset_iam_policy" \/ i # g)
           => GrantCalls(r, g) # {}

(***************************************************************************)
(* C7. Partial import is not a failure: after an import whose response     *)
(* reports rejected files, the next thing the run does for the group is    *)
(* the set_dataset_iam_policy call, and no exception has been raised.      *)
(***************************************************************************)
C7_PartialImportProceeds ==
    \A k \in CallIndexes :
        PartialImport(k) =>
            IF k = Len(calls)
            THEN /\ pc = "set_dataset_iam_policy"
                 /\ i = calls[k].group
                 /\ runNo = calls[k].run
                 /\ exc = "none"
            ELSE /\ calls[k + 1].op = "set_dataset_iam_policy"
                 /\ calls[k + 1].group = calls[k].group
                 /\ calls[k + 1].run = calls[k].run

C7_Witness ==
    \E k \in CallIndexes :
        /\ PartialImport(k)
        /\ calls[k].summary.succeeded = 7
        /\ k < Len(calls)
        /\ calls[k + 1].op = "set_dataset_iam_policy"
        /\ calls[k + 1].result = "ok"
        /\ pc = "returned"

(***************************************************************************)
(* C8. One outcome per group: a run on a study whose group names are       *)
(* distinct and valid has, when it ends, attempted every group, in the     *)
(* order of declaration, whatever the remote calls returned.               *)
(***************************************************************************)
C8_OneOutcomePerGroup ==
    (Terminated /\ WellFormedStudy)
    => /\ \A g \in 1..NumGroups : Attempted(runNo, g)
       /\ \A k, l \in CallIndexes :
              (k < l /\ calls[k].run = calls[l].run)
              => calls[k].group <= calls[l].group

(***************************************************************************)
(* C9. Naming is injective: two distinct (studyId, key) pairs never derive *)
(* the same dataset id or the same store id.                               *)
(***************************************************************************)
C9_NamingInjective ==
    (names # <<>> /\ pairs[1] # pairs[2]) =>
        /\ names[1].datasetId # names[2].datasetId
        /\ names[1].storeId # names[2].storeId

(***************************************************************************)
(* C9, amended. Two distinct pairs that share the studyId (the groups of   *)
(* one study) or share the key never derive the same dataset id or the     *)
(* same store id.                                                          *)
(***************************************************************************)
C9_InjectiveInOneComponent ==
    (/\ names # <<>>
     /\ pairs[1] # pairs[2]
     /\ pairs[1].studyId = pairs[2].studyId \/ pairs[1].key = pairs[2].key)
    => /\ names[1].datasetId # names[2].datasetId
       /\ names[1].storeId # names[2].storeId

C9_Witness ==
    /\ names # <<>>
    /\ pairs[1].studyId = pairs[2].studyId
    /\ pairs[1].key = <<"a">>
    /\ pairs[2].key = <<"-", "a">>
    /\ names[1].datasetId # names[2].datasetId

(***************************************************************************)
(* C10. Invalid identifier is scoped to one group: no remote call is made  *)
(* for a group whose name the remote grammar rejects, and every other      *)
(* group has been attempted when the run ends.                             *)
(***************************************************************************)
C10_InvalidIdentifierScoped ==
    \A g \in 1..NumGroups :
        IF ValidGroup(g)
        THEN (Terminated /\ argc = 2) => Attempted(runNo, g)
        ELSE \A r \in 1..runNo : ~Attempted(r, g)

(***************************************************************************)
(* C11. Overall status: when a run on a study of distinct, valid group     *)
(* names ends, its reported status is Success exactly when all groups      *)
(* succeeded, PartialFailure exactly when at least one group succeeded and *)
(* at least one did not, and Failure exactly when no group succeeded; the  *)
(* exit status is non-zero whenever the status is not Success.             *)
(***************************************************************************)
C11_OverallStatus ==
    (Terminated /\ WellFormedStudy /\ NumGroups >= 1) =>
        LET succeeded == {g \in 1..NumGroups : Completed(runNo, g)}
            expected == IF succeeded = 1..NumGroups THEN "Success"
                        ELSE IF succeeded # {} THEN "PartialFailure"
                        ELSE "Failure"
        IN  /\ RunStatus = expected
            /\ expected # "Success" => exits[runNo] # 0

(***************************************************************************)
(* C12. Resource targeting: every remote call made for consent group g of  *)
(* study S names dataset "dataset--S--g"; create_dicom_store and the       *)
(* import name store "S--g" in it, the import reads "S--g/**.dcm", the     *)
(* grant targets that dataset; and no call made for g names the dataset or *)
(* the store of a group with another name.                                 *)
(***************************************************************************)
C12_ResourceTargeting ==
    \A k \in CallIndexes :
        LET c == calls[k]
            g == consentGroups[c.group].name
            expectedStore == study.id \o <<"-", "-">> \o g
            expectedDataset ==
                <<"d", "a", "t", "a", "s", "e", "t", "-", "-">> \o expectedStore
        IN  /\ c.dataset = expectedDataset
            /\ c.op \in {"create_dicom_store", "import_dicom_instance"}
               => c.store = expectedStore
            /\ c.op = "import_dicom_instance"
               => c.uri = expectedStore \o <<"/", "*", "*", ".", "d", "c", "m">>
            /\ \A h \in 1..NumGroups :
                   consentGroups[h].name # g
                   => /\ c.dataset # DeriveNames([studyId |-> study.id,
                                key |-> consentGroups[h].name]).datasetId
                      /\ c.store # DeriveNames([studyId |-> study.id,
                                key |-> consentGroups[h].name]).storeId

C12_Witness ==
    /\ NumGroups = 2
    /\ consentGroups[1].name = <<"a">>
    /\ consentGroups[2].name = <<"b">>
    /\ Completed(1, 2)
    /\ \E k \in CallsOf(1, 2) :
           /\ calls[k].op = "import_dicom_instance"
           /\ calls[k].uri = <<"s", "-", "-", "b", "/", "*", "*", ".", "d", "c", "m">>
           /\ calls[k].dataset =
                  <<"d", "a", "t", "a", "s", "e", "t", "-", "-", "s", "-", "-", "b">>

(***************************************************************************)
(* C13. Missing argument: a run started without the yaml file argument     *)
(* makes no remote call and ends with a non-zero exit status.              *)
(***************************************************************************)
C13_MissingArgument ==
    (argc < 2 /\ Terminated) =>
        /\ pc = "usage"
        /\ \A k \in CallIndexes : calls[k].run # runNo
        /\ exits[runNo] # 0

(***************************************************************************)
(* C14. Per-group step order: within one run the calls of a consent group  *)
(* occur only in the order create_dataset, create_dicom_store,             *)
(* import_dicom_instance, set_dataset_iam_policy; each step but the first  *)
(* directly follows the previous step of the same group, which returned    *)
(* successfully (or with AlreadyExists); after a failing step no further   *)
(* call is made for that group in the run.                                 *)
(***************************************************************************)
C14_StepOrder ==
    \A k \in CallIndexes :
        LET c == calls[k]
            sameGroup(j) == calls[j].run = c.run /\ calls[j].group = c.group
            previous == CASE c.op = "create_dicom_store" -> "create_dataset"
                          [] c.op = "import_dicom_instance" -> "create_dicom_store"
                          [] OTHER -> "import_dicom_instance"
        IN  /\ c.op = "create_dataset" => \A j \in 1..(k - 1) : ~sameGroup(j)
            /\ c.op # "create_dataset"
               => /\ k > 1
                  /\ sameGroup(k - 1)
                  /\ calls[k - 1].op = previous
                  /\ calls[k - 1].result \in {"ok", "AlreadyExists"}
            /\ c.result \notin {"ok", "AlreadyExists"}
               => \A j \in (k + 1)..Len(calls) : ~sameGroup(j)

C14_Witness ==
    /\ pc = "raised"
    /\ runNo = 1
    /\ Len(calls) = 7
    /\ Completed(1, 1)
    /\ calls[4].op = "set_dataset_iam_policy"
    /\ calls[5].op = "create_dataset"
    /\ calls[6].op = "create_dicom_store"
    /\ calls[7].op = "import_dicom_instance"
    /\ calls[7].group = 2
    /\ calls[7].result = "PermissionDenied"

PartiallyProvisioned(g) ==
    /\ \E r \in 1..runNo : StepDone(r, g, "create_dataset")
                           \/ StepDone(r, g, "create_dicom_store")
    /\ ~\E r \in 1..runNo : StepDone(r, g, "set_dataset_iam_policy")

(***************************************************************************)
(* C16. Sequential processing across groups: when a call is issued for a   *)
(* consent group, the last step of every earlier-declared group has        *)
(* already returned in that run, and calls of different groups are never   *)
(* interleaved; hence at most one group is partially provisioned (dataset  *)
(* or store created, grant not yet done) at any time.                      *)
(***************************************************************************)
C16_SequentialGroups ==
    /\ \A k \in CallIndexes :
           /\ \A h \in 1..(calls[k].group - 1) :
                  \E j \in 1..(k - 1) :
                      /\ calls[j].run = calls[k].run
                      /\ calls[j].group = h
                      /\ calls[j].op = "set_dataset_iam_policy"
           /\ \A j \in 1..(k - 1) :
                  calls[j].run = calls[k].run => calls[j].group <= calls[k].group
    /\ Cardinality({g \in 1..NumGroups : PartiallyProvisioned(g)}) <= 1

C16_Witness ==
    /\ NumGroups = 2
    /\ pc = "import_dicom_instance"
    /\ i = 2
    /\ Completed(1, 1)
    /\ PartiallyProvisioned(2)
    /\ ~PartiallyProvisioned(1)

====
